---- MODULE Spec2Model ----
(***************************************************************************)
(* Model of the self-referential hierarchies of LinkToss-BE: decks         *)
(* (DeckService), drops (DropService) and threaded comments                *)
(* (CommentService) over one relational store.  A service method is one    *)
(* atomic step (@transaction.atomic, requests executed one at a time),     *)
(* except under SpecTxn, where create_deck and update_deck are concurrent  *)
(* transactions that read, and later write and commit.                     *)
(***************************************************************************)
EXTENDS Integers, FiniteSets, Sequences, TLC

\* ------------------------------------------------------------------ bounds
MaxDecks == 3
MaxDrops == 2
MaxComments == 3
ThreadDecks == 1                \* decks in the store while threads run
MaxOrderInput == 0
MaxThreadRows == 4              \* drops and comments together
MaxTxns == 2                    \* transactions in flight at once
TxnDecks == 3                   \* decks in the store of concurrent requests
DropDecks == 2                  \* decks in the store while drops are filed
FieldDecks == 2                 \* decks in the store of field updates
PairDecks == 5                  \* decks in the store of a pair of reparents

\* ------------------------------------------------------------ input values
Users == {"u1", "u2"}
NULL == 0                       \* None for ids, foreign keys and timestamps
Now == 1                        \* timezone.now() of the call
NoOrder == -1                   \* None for the optional order argument
NoText == "None"                \* None for optional text / bool arguments
DeckIds == 1..MaxDecks
DropIds == 1..MaxDrops
CommentIds == 1..MaxComments
UpdateNames == {NoText}
UpdatePublic == {NoText}
Contents == {"c2"}
TxnIds == 1..MaxTxns
TxnUsers == {"u1"}
NewName == "n2"                 \* the payload of an update that changes
NewDescription == "d2"          \* every field
NewColor == "#ffffff"
NewOrder == 7
NewPublic == "True"

\* ------------------------------------------------------- results of a call
Ok == "ok"
ReturnsNone == "None"
ReturnsFalse == "False"
SelfParentError == "ValueError: Deck cannot be its own parent"
ParentNotFound == "ValueError: Parent deck with id not found"
CycleDetected == "ValueError: Circular reference detected"
DeckNotFound == "ValueError: Deck with id not found"
DropNotFound == "ValueError: Drop with id not found"
ParentCommentNotFound == "ValueError: Parent comment with id not found"
ParentCommentOtherDrop == "ValueError: Parent comment does not belong to the same drop"
PermissionDenied == "PermissionError"
NeverReturns == "never returns"
RecursionError == "RecursionError"
StoreFailure == "DatabaseError"

VARIABLES decks, drops, comments, last, txns

vars == <<decks, drops, comments, last, txns>>

\* one record per call: the operation, its arguments and what it returned
Call(op, user, id, parent_id, scope, res) ==
    [op |-> op, user |-> user, id |-> id, parent_id |-> parent_id,
     scope |-> scope, res |-> res]

\* a transaction in flight: the call, and the object in memory that its
\* write will store
Txn(op, user, id, parent_id, row) ==
    [op |-> op, user |-> user, id |-> id, parent_id |-> parent_id,
     row |-> row]

Idle == Txn("idle", "u1", NULL, NULL, NULL)

Init ==
    /\ decks = <<>>
    /\ drops = <<>>
    /\ comments = <<>>
    /\ last = Call("init", "u1", NULL, NULL, NULL, Ok)
    /\ txns = [s \in TxnIds |-> Idle]

\* uuid4 primary key of a new row: the next unused id
NewId(table) == Cardinality(DOMAIN table) + 1

\* SoftDeleteModel.delete: mark the row deleted, keep it stored
SoftDelete(row, t) == [row EXCEPT !.is_deleted = TRUE, !.deleted_at = t]

\* ------------------------------------------------------------- DeckService
\* the row reached from node by k parent links, NULL past a root
RECURSIVE UpK(_, _, _)
UpK(store, node, k) ==
    IF k = 0 \/ node = NULL THEN node
    ELSE UpK(store, store[node].parent, k - 1)

\* faulty variant: the lookup without the user filter
get_deck_by_id_any_user(store, deck_id, user) ==
    IF deck_id \in DOMAIN store /\ store[deck_id].deleted_at = NULL
    THEN deck_id ELSE NULL

\* faulty variant: the lookup without the deleted_at filter
get_deck_by_id_with_deleted(store, deck_id, user) ==
    IF deck_id \in DOMAIN store /\ store[deck_id].user = user
    THEN deck_id ELSE NULL

get_deck_by_id(store, deck_id, user) ==
    IF /\ deck_id \in DOMAIN store
       /\ store[deck_id].user = user
       /\ store[deck_id].deleted_at = NULL
    THEN deck_id ELSE NULL

\* faulty variant: the parent lookup without the user filter
_get_parent_deck_any_user(store, parent_id, user) ==
    IF parent_id \in DOMAIN store /\ store[parent_id].deleted_at = NULL
    THEN parent_id ELSE NULL

\* faulty variant: the parent lookup without the deleted_at filter
_get_parent_deck_with_deleted(store, parent_id, user) ==
    IF parent_id \in DOMAIN store /\ store[parent_id].user = user
    THEN parent_id ELSE NULL

\* NULL stands for the ValueError "Parent deck with id ... not found"
_get_parent_deck(store, parent_id, user) ==
    get_deck_by_id(store, parent_id, user)

\* Deck.objects.filter(user=user, parent=parent, deleted_at__isnull=True)
get_user_decks(store, user, parent) ==
    {d \in DOMAIN store : /\ store[d].user = user
                          /\ store[d].parent = parent
                          /\ store[d].deleted_at = NULL}

SetMax(S) == CHOOSE x \in S : \A y \in S : y <= x

\* faulty variant: soft-deleted siblings count as well
_get_next_order_with_deleted(store, user, parent) ==
    LET siblings == {d \in DOMAIN store : /\ store[d].user = user
                                          /\ store[d].parent = parent}
    IN  IF siblings = {} THEN 0
        ELSE SetMax({store[d].order : d \in siblings}) + 1

\* faulty variant: the number of live siblings instead of max + 1
_get_next_order_by_count(store, user, parent) ==
    Cardinality(get_user_decks(store, user, parent))

_get_next_order(store, user, parent) ==
    LET siblings == get_user_decks(store, user, parent)
    IN  IF siblings = {} THEN 0
        ELSE SetMax({store[d].order : d \in siblings}) + 1

\* the while loop of _check_circular_reference; "loop" when the walk over
\* the stored parent links does not end
RECURSIVE CircularWalk(_, _, _, _)
CircularWalk(store, deck, current, fuel) ==
    IF current = NULL THEN "ok"
    ELSE IF current = deck THEN "raise"
    ELSE IF fuel = 0 THEN "loop"
    ELSE CircularWalk(store, deck, store[current].parent, fuel - 1)

\* faulty variant: a walk that stops after two decks
_check_circular_reference_parent_only(store, deck, new_parent) ==
    IF new_parent = deck \/ store[new_parent].parent = deck
    THEN "raise" ELSE "ok"

\* faulty variant: no walk at all
_check_circular_reference_skipped(store, deck, new_parent) == "ok"

_check_circular_reference(store, deck, new_parent) ==
    CircularWalk(store, deck, new_parent, Cardinality(DOMAIN store))

\* Deck.objects.filter(parent=deck, deleted_at__isnull=True)
LiveChildDecks(store, deck) ==
    {d \in DOMAIN store : store[d].parent = deck /\ store[d].deleted_at = NULL}

RECURSIVE deck_soft_delete_recursive(_, _, _)
RECURSIVE DeckDeleteEach(_, _, _)
DeckDeleteEach(store, children, t) ==
    IF children = {} THEN store
    ELSE LET child == CHOOSE c \in children : \A o \in children : c <= o
         IN  DeckDeleteEach(deck_soft_delete_recursive(store, child, t),
                            children \ {child}, t)

\* faulty variant: the parent of the deck is marked as well
deck_soft_delete_with_parent(store, deck, t) ==
    [d \in DOMAIN store |->
        IF d = deck \/ d \in LiveChildDecks(store, deck)
                    \/ d = store[deck].parent
        THEN SoftDelete(store[d], t) ELSE store[d]]

\* faulty variant: one level of children instead of the recursion
deck_soft_delete_children_only(store, deck, t) ==
    [d \in DOMAIN store |->
        IF d = deck \/ d \in LiveChildDecks(store, deck)
        THEN SoftDelete(store[d], t) ELSE store[d]]

deck_soft_delete_recursive(store, deck, t) ==
    LET after == DeckDeleteEach(store, LiveChildDecks(store, deck), t)
    IN  [after EXCEPT ![deck] = SoftDelete(after[deck], t)]

\* faulty variant: the self-parent test left out
IsSelfParentNever(deck, parent_id) == FALSE

\* str(deck.id) == str(parent_id)
IsSelfParent(deck, parent_id) == deck = parent_id

\* a UUID argument is always truthy; None is not
Truthy(id) == id # NULL

create_deck(user, name, description, color_hex, parent_id, is_public) ==
    /\ Cardinality(DOMAIN decks) < MaxDecks
    /\ LET found == IF Truthy(parent_id)
                    THEN _get_parent_deck(decks, parent_id, user) ELSE NULL
           id == NewId(decks)
       IN  IF Truthy(parent_id) /\ found = NULL
           THEN /\ last' = Call("create_deck", user, NULL, parent_id, NULL,
                                ParentNotFound)
                /\ UNCHANGED <<decks, drops, comments>>
           ELSE /\ decks' = decks @@ (id :>
                      [user |-> user, name |-> name,
                       description |-> description, color_hex |-> color_hex,
                       parent |-> found,
                       order |-> _get_next_order(decks, user, found),
                       is_public |-> is_public,
                       is_deleted |-> FALSE, deleted_at |-> NULL])
                /\ last' = Call("create_deck", user, NULL, parent_id, NULL,
                                Ok)
                /\ UNCHANGED <<drops, comments>>

\* faulty variant: a deck that is given an order becomes a root deck
DeckFieldChangesDetach(deck, name, description, color_hex, order, is_public) ==
    [deck EXCEPT
       !.name = IF name # NoText THEN name ELSE @,
       !.description = IF description # NoText THEN description ELSE @,
       !.color_hex = IF color_hex # NoText THEN color_hex ELSE @,
       !.is_public = IF is_public # NoText THEN (is_public = "True") ELSE @,
       !.order = IF order # NoOrder THEN order ELSE @,
       !.parent = IF order # NoOrder THEN NULL ELSE @]

\* faulty variant: a request without an order puts the deck first
DeckFieldChangesOrderReset(deck, name, description, color_hex, order, is_public) ==
    [deck EXCEPT
       !.name = IF name # NoText THEN name ELSE @,
       !.description = IF description # NoText THEN description ELSE @,
       !.color_hex = IF color_hex # NoText THEN color_hex ELSE @,
       !.is_public = IF is_public # NoText THEN (is_public = "True") ELSE @,
       !.order = IF order # NoOrder THEN order ELSE 0]

\* the field assignments of update_deck before the parent is looked at
DeckFieldChanges(deck, name, description, color_hex, order, is_public) ==
    [deck EXCEPT
       !.name = IF name # NoText THEN name ELSE @,
       !.description = IF description # NoText THEN description ELSE @,
       !.color_hex = IF color_hex # NoText THEN color_hex ELSE @,
       !.is_public = IF is_public # NoText THEN (is_public = "True") ELSE @,
       !.order = IF order # NoOrder THEN order ELSE @]

\* faulty variant: the row is saved before the parent is validated
RaiseAfterSave(store, deck, changed) == [store EXCEPT ![deck] = changed]

\* a ValueError raised before deck.save(): the assignments were made to the
\* object in memory only, and the stored rows are as they were
RaiseBeforeSave(store, deck, changed) == store

update_deck(deck_id, user, name, description, color_hex, parent_id, order, is_public) ==
    LET deck == get_deck_by_id(decks, deck_id, user)
        fail(res) ==
            /\ last' = Call("update_deck", user, deck_id, parent_id, NULL,
                            res)
            /\ UNCHANGED <<decks, drops, comments>>
        raise(res, changed) ==
            /\ decks' = RaiseBeforeSave(decks, deck, changed)
            /\ last' = Call("update_deck", user, deck_id, parent_id, NULL,
                            res)
            /\ UNCHANGED <<drops, comments>>
        save(row) ==
            /\ decks' = [decks EXCEPT ![deck] = row]
            /\ last' = Call("update_deck", user, deck_id, parent_id, NULL,
                            Ok)
            /\ UNCHANGED <<drops, comments>>
    IN  IF deck = NULL THEN fail(ReturnsNone)
        ELSE LET changed == DeckFieldChanges(decks[deck], name, description,
                                             color_hex, order, is_public)
             IN  IF parent_id = NULL THEN save(changed)
                 ELSE IF IsSelfParent(deck, parent_id)
                      THEN raise(SelfParentError, changed)
                 ELSE IF ~Truthy(parent_id)
                      THEN save([changed EXCEPT !.parent = NULL])
                 ELSE LET new_parent ==
                              _get_parent_deck(decks, parent_id, user)
                      IN  IF new_parent = NULL
                          THEN raise(ParentNotFound, changed)
                          ELSE LET walk == _check_circular_reference(
                                               decks, deck, new_parent)
                               IN  /\ walk # "loop"
                                   /\ IF walk = "raise"
                                      THEN raise(CycleDetected, changed)
                                      ELSE save([changed EXCEPT
                                                   !.parent = new_parent])

\* update_deck with a parent_id and no other field, run alone, as a function
\* of the stored decks: what the call answers and the decks it leaves
update_deck_parent(store, deck_id, user, parent_id) ==
    LET deck == get_deck_by_id(store, deck_id, user)
        answer(res, rows) == [res |-> res, decks |-> rows]
    IN  IF deck = NULL THEN answer(ReturnsNone, store)
        ELSE IF IsSelfParent(deck, parent_id)
        THEN answer(SelfParentError, store)
        ELSE LET new_parent == _get_parent_deck(store, parent_id, user)
             IN  IF new_parent = NULL THEN answer(ParentNotFound, store)
                 ELSE LET walk == _check_circular_reference(
                                      store, deck, new_parent)
                      IN  IF walk = "loop" THEN answer(NeverReturns, store)
                          ELSE IF walk = "raise"
                          THEN answer(CycleDetected, store)
                          ELSE answer(Ok, [store EXCEPT
                                             ![deck].parent = new_parent])

delete_deck(deck_id, user) ==
    LET deck == get_deck_by_id(decks, deck_id, user)
    IN  IF deck = NULL
        THEN /\ last' = Call("delete_deck", user, deck_id, NULL, NULL,
                             ReturnsFalse)
             /\ UNCHANGED <<decks, drops, comments>>
        ELSE /\ decks' = deck_soft_delete_recursive(decks, deck, Now)
             /\ last' = Call("delete_deck", user, deck_id, NULL, NULL,
                             Ok)
             /\ UNCHANGED <<drops, comments>>

CreateDeck ==
    /\ \E user \in Users, parent_id \in DeckIds \cup {NULL} :
           create_deck(user, "n1", NoText, "#000000", parent_id, FALSE)
    /\ UNCHANGED txns

UpdateDeck ==
    /\ \E deck_id \in DeckIds, user \in Users, name \in UpdateNames,
          parent_id \in DeckIds \cup {NULL},
          order \in (0..MaxOrderInput) \cup {NoOrder},
          is_public \in UpdatePublic :
           update_deck(deck_id, user, name, NoText, NoText, parent_id, order,
                       is_public)
    /\ UNCHANGED txns

\* an update that asks for a new value of every field
UpdateDeckFields ==
    /\ \E deck_id \in DeckIds, user \in Users,
          parent_id \in DeckIds \cup {NULL} :
           update_deck(deck_id, user, NewName, NewDescription, NewColor,
                       parent_id, NewOrder, NewPublic)
    /\ UNCHANGED txns

\* an update that asks for no parent and for a new value of any of the
\* order, the is_public flag and the texts (name, description and color)
UpdateDeckAnyFields ==
    /\ \E deck_id \in DeckIds, user \in Users, texts \in BOOLEAN,
          order \in {NoOrder, NewOrder}, is_public \in {NoText, NewPublic} :
           update_deck(deck_id, user, IF texts THEN NewName ELSE NoText,
                       IF texts THEN NewDescription ELSE NoText,
                       IF texts THEN NewColor ELSE NoText, NULL, order,
                       is_public)
    /\ UNCHANGED txns

DeleteDeck ==
    /\ \E deck_id \in DeckIds, user \in Users : delete_deck(deck_id, user)
    /\ UNCHANGED txns

\* ------------------------------------------------------------- DropService
\* Deck.objects.get(id=deck_id, user=user, is_deleted=False)
GetDropDeck(store, deck_id, user) ==
    IF /\ deck_id \in DOMAIN store
       /\ store[deck_id].user = user
       /\ ~store[deck_id].is_deleted
    THEN deck_id ELSE NULL

get_drop_by_id(store, drop_id, user) ==
    IF /\ drop_id \in DOMAIN store
       /\ store[drop_id].user = user
       /\ ~store[drop_id].is_deleted
    THEN drop_id ELSE NULL

\* the scraped metadata and the tags are payload: they carry no structure
create_drop(user, deck_id, title) ==
    /\ Cardinality(DOMAIN drops) < MaxDrops
    /\ LET deck == GetDropDeck(decks, deck_id, user)
           id == NewId(drops)
       IN  IF deck = NULL
           THEN /\ last' = Call("create_drop", user, NULL, NULL, deck_id,
                                DeckNotFound)
                /\ UNCHANGED <<decks, drops, comments>>
           ELSE /\ drops' = drops @@ (id :>
                      [user |-> user, deck |-> deck, title |-> title,
                       is_deleted |-> FALSE, deleted_at |-> NULL])
                /\ last' = Call("create_drop", user, NULL, NULL, deck_id,
                                Ok)
                /\ UNCHANGED <<decks, comments>>

update_drop(drop_id, user, title, deck_id) ==
    LET drop == get_drop_by_id(drops, drop_id, user)
        fail(res) ==
            /\ last' = Call("update_drop", user, drop_id, NULL, deck_id,
                            res)
            /\ UNCHANGED <<decks, drops, comments>>
    IN  IF drop = NULL THEN fail(ReturnsNone)
        ELSE LET changed == [drops[drop] EXCEPT
                               !.title = IF title # NoText THEN title ELSE @]
                 deck == GetDropDeck(decks, deck_id, user)
             IN  IF deck_id # NULL /\ deck = NULL THEN fail(DeckNotFound)
                 ELSE /\ drops' = [drops EXCEPT ![drop] =
                            IF deck_id # NULL
                            THEN [changed EXCEPT !.deck = deck] ELSE changed]
                      /\ last' = Call("update_drop", user, drop_id, NULL,
                                      deck_id, Ok)
                      /\ UNCHANGED <<decks, comments>>

delete_drop(drop_id, user) ==
    LET drop == get_drop_by_id(drops, drop_id, user)
    IN  IF drop = NULL
        THEN /\ last' = Call("delete_drop", user, drop_id, NULL, NULL,
                             ReturnsFalse)
             /\ UNCHANGED <<decks, drops, comments>>
        ELSE /\ drops' = [drops EXCEPT ![drop] = SoftDelete(drops[drop], Now)]
             /\ last' = Call("delete_drop", user, drop_id, NULL, NULL,
                             Ok)
             /\ UNCHANGED <<decks, comments>>

\* Drop.breadcrumb, Deck.get_ancestors, Deck.depth, Deck.get_root: the walks
\* follow the stored parent link, whatever the deleted mark of the parent
RECURSIVE AncestorsWalk(_, _, _)
AncestorsWalk(store, current, ancestors) ==
    IF current = NULL THEN ancestors
    ELSE AncestorsWalk(store, store[current].parent, <<current>> \o ancestors)

RECURSIVE AncestorsWalkAppend(_, _, _)
AncestorsWalkAppend(store, current, ancestors) ==
    IF current = NULL THEN ancestors
    ELSE AncestorsWalkAppend(store, store[current].parent,
                             Append(ancestors, current))

\* faulty variant: append instead of insert(0, ...)
get_ancestors_nearest_first(store, deck) ==
    AncestorsWalkAppend(store, store[deck].parent, <<>>)

get_ancestors(store, deck) == AncestorsWalk(store, store[deck].parent, <<>>)

RECURSIVE DepthWalk(_, _, _)
DepthWalk(store, current, depth) ==
    IF current = NULL THEN depth
    ELSE DepthWalk(store, store[current].parent, depth + 1)

depth(store, deck) == DepthWalk(store, store[deck].parent, 0)

RECURSIVE get_root(_, _)
get_root(store, deck) ==
    IF store[deck].parent = NULL THEN deck
    ELSE get_root(store, store[deck].parent)

\* Drop.breadcrumb of a drop filed in drop_deck
breadcrumb(store, drop_deck) == get_ancestors(store, drop_deck) \o <<drop_deck>>

\* ---------------------------------------------------------- CommentService
\* faulty variant: the lookup without the deleted_at filter
get_comment_by_id_with_deleted(store, comment_id) ==
    IF comment_id \in DOMAIN store THEN comment_id ELSE NULL

get_comment_by_id(store, comment_id) ==
    IF comment_id \in DOMAIN store /\ store[comment_id].deleted_at = NULL
    THEN comment_id ELSE NULL

\* Comment.objects.filter(parent=comment, deleted_at__isnull=True)
LiveReplies(store, comment) ==
    {c \in DOMAIN store :
        store[c].parent = comment /\ store[c].deleted_at = NULL}

RECURSIVE comment_soft_delete_recursive(_, _, _)
RECURSIVE CommentDeleteEach(_, _, _)
CommentDeleteEach(store, replies, t) ==
    IF replies = {} THEN store
    ELSE LET reply == CHOOSE c \in replies : \A o \in replies : c <= o
         IN  CommentDeleteEach(comment_soft_delete_recursive(store, reply, t),
                               replies \ {reply}, t)

\* faulty variant: one level of replies instead of the recursion
comment_soft_delete_replies_only(store, comment, t) ==
    [c \in DOMAIN store |->
        IF c = comment \/ c \in LiveReplies(store, comment)
        THEN SoftDelete(store[c], t) ELSE store[c]]

comment_soft_delete_recursive(store, comment, t) ==
    LET after == CommentDeleteEach(store, LiveReplies(store, comment), t)
    IN  [after EXCEPT ![comment] = SoftDelete(after[comment], t)]

\* faulty variant: the drop test left out
ParentInOtherDropIgnored(parent_drop, drop_id) == FALSE

\* the check "parent.drop_id != drop_id" of create_comment
ParentInOtherDrop(parent_drop, drop_id) == parent_drop # drop_id

create_comment(user, drop_id, content, parent_id) ==
    /\ Cardinality(DOMAIN comments) < MaxComments
    /\ LET fail(res) ==
               /\ last' = Call("create_comment", user, NULL, parent_id,
                               drop_id, res)
               /\ UNCHANGED <<decks, drops, comments>>
           parent == IF Truthy(parent_id)
                     THEN get_comment_by_id(comments, parent_id) ELSE NULL
           id == NewId(comments)
       IN  IF ~(drop_id \in DOMAIN drops /\ drops[drop_id].deleted_at = NULL)
           THEN fail(DropNotFound)
           ELSE IF Truthy(parent_id) /\ parent = NULL
           THEN fail(ParentCommentNotFound)
           ELSE IF /\ Truthy(parent_id)
                   /\ ParentInOtherDrop(comments[parent].drop, drop_id)
           THEN fail(ParentCommentOtherDrop)
           ELSE /\ comments' = comments @@ (id :>
                      [user |-> user, drop |-> drop_id, content |-> content,
                       parent |-> parent,
                       is_deleted |-> FALSE, deleted_at |-> NULL])
                /\ last' = Call("create_comment", user, NULL, parent_id,
                                drop_id, Ok)
                /\ UNCHANGED <<decks, drops>>

update_comment(comment_id, user, content) ==
    LET comment == get_comment_by_id(comments, comment_id)
        done(res) == last' = Call("update_comment", user, comment_id, NULL,
                                  NULL, res)
    IN  IF comment = NULL
        THEN done(ReturnsNone) /\ UNCHANGED <<decks, drops, comments>>
        ELSE IF comments[comment].user # user
        THEN done(PermissionDenied) /\ UNCHANGED <<decks, drops, comments>>
        ELSE /\ comments' = [comments EXCEPT ![comment].content = content]
             /\ done(Ok)
             /\ UNCHANGED <<decks, drops>>

\* faulty variant: the author test left out
delete_comment_unchecked(comment_id, user) ==
    LET comment == get_comment_by_id(comments, comment_id)
        done(res) == last' = Call("delete_comment", user, comment_id, NULL,
                                  NULL, res)
    IN  IF comment = NULL
        THEN done(ReturnsFalse) /\ UNCHANGED <<decks, drops, comments>>
        ELSE /\ comments' =
                    comment_soft_delete_recursive(comments, comment, Now)
             /\ done(IF comments[comment].user # user
                     THEN PermissionDenied ELSE Ok)
             /\ UNCHANGED <<decks, drops>>

delete_comment(comment_id, user) ==
    LET comment == get_comment_by_id(comments, comment_id)
        done(res) == last' = Call("delete_comment", user, comment_id, NULL,
                                  NULL, res)
    IN  IF comment = NULL
        THEN done(ReturnsFalse) /\ UNCHANGED <<decks, drops, comments>>
        ELSE IF comments[comment].user # user
        THEN done(PermissionDenied) /\ UNCHANGED <<decks, drops, comments>>
        ELSE /\ comments' =
                    comment_soft_delete_recursive(comments, comment, Now)
             /\ done(Ok)
             /\ UNCHANGED <<decks, drops>>

CreateDrop ==
    /\ \E user \in Users, deck_id \in DeckIds : create_drop(user, deck_id, "t1")
    /\ UNCHANGED txns

UpdateDrop ==
    /\ \E drop_id \in DropIds, user \in Users, deck_id \in DeckIds \cup {NULL} :
           update_drop(drop_id, user, NoText, deck_id)
    /\ UNCHANGED txns

DeleteDrop ==
    /\ \E drop_id \in DropIds, user \in Users : delete_drop(drop_id, user)
    /\ UNCHANGED txns

CreateComment ==
    /\ \E user \in Users, drop_id \in DropIds,
          parent_id \in CommentIds \cup {NULL} :
           create_comment(user, drop_id, "c1", parent_id)
    /\ UNCHANGED txns

UpdateComment ==
    /\ \E comment_id \in CommentIds, user \in Users, content \in Contents :
           update_comment(comment_id, user, content)
    /\ UNCHANGED txns

DeleteComment ==
    /\ \E comment_id \in CommentIds, user \in Users :
           delete_comment(comment_id, user)
    /\ UNCHANGED txns

\* -------------------------------------------------------- tree projections
\* faulty variant: the children query without the is_deleted filter
get_children_with_deleted(store, obj) ==
    {d \in DOMAIN store : store[d].parent = obj}

\* DeckTreeSerializer.get_children: obj.children.filter(is_deleted=False)
get_children(store, obj) ==
    {d \in DOMAIN store : store[d].parent = obj /\ ~store[d].is_deleted}

\* the decks that DeckTreeSerializer(objs, many=True).data shows, at every
\* nesting level of "children"
RECURSIVE DeckTreeSerializer(_, _)
DeckTreeSerializer(store, objs) ==
    objs \cup UNION {DeckTreeSerializer(store, get_children(store, o)) :
                        o \in objs}

\* DeckService.get_deck_tree: the queryset handed to DeckTreeSerializer
get_deck_tree(store, user, deck_id) ==
    IF Truthy(deck_id)
    THEN LET deck == get_deck_by_id(store, deck_id, user)
         IN  IF deck = NULL THEN {}
             ELSE {d \in DOMAIN store : /\ store[d].user = user
                                        /\ store[d].parent = deck
                                        /\ store[d].deleted_at = NULL}
    ELSE {d \in DOMAIN store : /\ store[d].user = user
                               /\ store[d].parent = NULL
                               /\ store[d].deleted_at = NULL}

\* the arrangements of rows in a sequence
Arrangements(rows) ==
    {seq \in [1..Cardinality(rows) -> rows] :
        \A i, j \in 1..Cardinality(rows) : i # j => seq[i] # seq[j]}

\* .order_by("order"): the rows by ascending order; the database is free in
\* how it arranges rows of equal order, so every such arrangement can be
\* the answer
order_by_order(store, rows) ==
    {seq \in Arrangements(rows) :
        \A i, j \in 1..Cardinality(rows) :
            i < j => store[seq[i]].order <= store[seq[j]].order}

\* the "children" list that DeckTreeSerializer.get_children builds for obj
get_children_data(store, obj) == order_by_order(store, get_children(store, obj))

\* a tree request serializes the children of a live deck
ReadChildren ==
    /\ \E deck \in DOMAIN decks :
         \E data \in get_children_data(decks, deck) :
           /\ ~decks[deck].is_deleted
           /\ last' = Call("get_children", decks[deck].user, deck, NULL,
                           NULL, data)
    /\ UNCHANGED <<decks, drops, comments, txns>>

\* CommentTreeSerializer.get_replies: obj.replies.filter(is_deleted=False)
get_replies(store, obj) ==
    {c \in DOMAIN store : store[c].parent = obj /\ ~store[c].is_deleted}

\* the comments that CommentTreeSerializer(objs, many=True).data shows, at
\* every nesting level of "replies"
RECURSIVE CommentTreeSerializer(_, _)
CommentTreeSerializer(store, objs) ==
    objs \cup UNION {CommentTreeSerializer(store, get_replies(store, o)) :
                        o \in objs}

\* CommentService.get_drop_comments: the top-level comments of a drop
get_drop_comments(store, drop_id) ==
    {c \in DOMAIN store : /\ store[c].drop = drop_id
                          /\ store[c].parent = NULL
                          /\ store[c].deleted_at = NULL}

\* ------------------------------------------------- failure inside a cascade
\* the rows that _soft_delete_recursive marks, in the order of its delete()
\* calls: below every deck its live children first, then the deck
RECURSIVE DeckDeleteOrder(_, _)
RECURSIVE DeckDeleteOrderEach(_, _)
DeckDeleteOrderEach(store, children) ==
    IF children = {} THEN <<>>
    ELSE LET child == CHOOSE c \in children : \A o \in children : c <= o
         IN  DeckDeleteOrder(store, child)
                \o DeckDeleteOrderEach(store, children \ {child})

DeckDeleteOrder(store, deck) ==
    DeckDeleteOrderEach(store, LiveChildDecks(store, deck)) \o <<deck>>

RECURSIVE CommentDeleteOrder(_, _)
RECURSIVE CommentDeleteOrderEach(_, _)
CommentDeleteOrderEach(store, replies) ==
    IF replies = {} THEN <<>>
    ELSE LET reply == CHOOSE c \in replies : \A o \in replies : c <= o
         IN  CommentDeleteOrder(store, reply)
                \o CommentDeleteOrderEach(store, replies \ {reply})

CommentDeleteOrder(store, comment) ==
    CommentDeleteOrderEach(store, LiveReplies(store, comment)) \o <<comment>>

\* the rows inside the transaction once the first k delete() calls are done
MarkFirst(store, order, k, t) ==
    [n \in DOMAIN store |->
        IF \E i \in 1..k : order[i] = n THEN SoftDelete(store[n], t)
        ELSE store[n]]

\* faulty variant: the writes made before the exception stay
no_rollback(before, inside) == inside

\* @transaction.atomic: an exception that leaves the method rolls back every
\* write made inside it
atomic_rollback(before, inside) == before

\* delete_deck whose delete() call number k + 1 raises; scope records k
delete_deck_fails(deck_id, user, k) ==
    LET deck == get_deck_by_id(decks, deck_id, user)
        order == DeckDeleteOrder(decks, deck)
    IN  /\ deck # NULL
        /\ k < Len(order)
        /\ decks' = atomic_rollback(decks, MarkFirst(decks, order, k, Now))
        /\ last' = Call("delete_deck", user, deck_id, NULL, k, StoreFailure)
        /\ UNCHANGED <<drops, comments>>

\* delete_comment whose delete() call number k + 1 raises; scope records k
delete_comment_fails(comment_id, user, k) ==
    LET comment == get_comment_by_id(comments, comment_id)
        order == CommentDeleteOrder(comments, comment)
    IN  /\ comment # NULL
        /\ comments[comment].user = user
        /\ k < Len(order)
        /\ comments' = atomic_rollback(comments,
                                       MarkFirst(comments, order, k, Now))
        /\ last' = Call("delete_comment", user, comment_id, NULL, k,
                        StoreFailure)
        /\ UNCHANGED <<decks, drops>>

DeleteDeckFails ==
    /\ \E deck_id \in DeckIds, user \in Users, k \in 0..(MaxDecks - 1) :
           delete_deck_fails(deck_id, user, k)
    /\ UNCHANGED txns

DeleteCommentFails ==
    /\ \E comment_id \in CommentIds, user \in Users,
          k \in 0..(MaxComments - 1) :
           delete_comment_fails(comment_id, user, k)
    /\ UNCHANGED txns

\* ------------------------------------------------- concurrent transactions
\* Two requests run DeckService methods at the same time.  A method reads
\* the committed rows when it validates, and the row it writes is visible to
\* the other request when its transaction.atomic block commits; no method
\* locks a row it has read (no select_for_update).
InFlight(op) == {s \in TxnIds : txns[s].op = op}

\* a request takes the first free slot
FreeSlot(s) ==
    /\ txns[s].op = "idle"
    /\ \A r \in TxnIds : r < s => txns[r].op # "idle"

\* create_deck up to the insert: the parent lookup and the next order
create_deck_read(s, user, name, description, color_hex, parent_id, is_public) ==
    /\ FreeSlot(s)
    /\ Cardinality(DOMAIN decks) + Cardinality(InFlight("create_deck"))
          < TxnDecks
    /\ LET found == IF Truthy(parent_id)
                    THEN _get_parent_deck(decks, parent_id, user) ELSE NULL
       IN  IF Truthy(parent_id) /\ found = NULL
           THEN /\ last' = Call("create_deck", user, NULL, parent_id, NULL,
                                ParentNotFound)
                /\ UNCHANGED <<decks, drops, comments, txns>>
           ELSE /\ txns' = [txns EXCEPT ![s] =
                      Txn("create_deck", user, NULL, parent_id,
                          [user |-> user, name |-> name,
                           description |-> description,
                           color_hex |-> color_hex,
                           parent |-> found,
                           order |-> _get_next_order(decks, user, found),
                           is_public |-> is_public,
                           is_deleted |-> FALSE, deleted_at |-> NULL])]
                /\ UNCHANGED <<decks, drops, comments, last>>

\* Deck.objects.create(...) and the commit
create_deck_write(s) ==
    /\ txns[s].op = "create_deck"
    /\ decks' = decks @@ (NewId(decks) :> txns[s].row)
    /\ last' = Call("create_deck", txns[s].user, NULL, txns[s].parent_id,
                    NULL, Ok)
    /\ txns' = [txns EXCEPT ![s] = Idle]
    /\ UNCHANGED <<drops, comments>>

\* update_deck up to deck.save(): the lookups and the cycle check
update_deck_read(s, deck_id, user, parent_id) ==
    /\ FreeSlot(s)
    /\ LET deck == get_deck_by_id(decks, deck_id, user)
           done(res) ==
               /\ last' = Call("update_deck", user, deck_id, parent_id, NULL,
                               res)
               /\ UNCHANGED <<decks, drops, comments, txns>>
           hold(row) ==
               /\ txns' = [txns EXCEPT ![s] =
                     Txn("update_deck", user, deck, parent_id, row)]
               /\ UNCHANGED <<decks, drops, comments, last>>
       IN  IF deck = NULL THEN done(ReturnsNone)
           ELSE IF parent_id = NULL THEN hold(decks[deck])
           ELSE IF IsSelfParent(deck, parent_id) THEN done(SelfParentError)
           ELSE LET new_parent == _get_parent_deck(decks, parent_id, user)
                IN  IF new_parent = NULL THEN done(ParentNotFound)
                    ELSE LET walk == _check_circular_reference(
                                         decks, deck, new_parent)
                         IN  /\ walk # "loop"
                             /\ IF walk = "raise" THEN done(CycleDetected)
                                ELSE hold([decks[deck] EXCEPT
                                             !.parent = new_parent])

\* faulty variant: the save fails while another request is in flight
update_deck_save_blocked(s) ==
    /\ txns[s].op = "update_deck"
    /\ IF \E r \in TxnIds \ {s} : txns[r].op # "idle"
       THEN /\ decks' = decks
            /\ last' = Call("update_deck", txns[s].user, txns[s].id,
                            txns[s].parent_id, NULL, StoreFailure)
       ELSE /\ decks' = [decks EXCEPT ![txns[s].id] = txns[s].row]
            /\ last' = Call("update_deck", txns[s].user, txns[s].id,
                            txns[s].parent_id, NULL, Ok)
    /\ txns' = [txns EXCEPT ![s] = Idle]
    /\ UNCHANGED <<drops, comments>>

\* deck.save() writes every column of the object in memory; then the commit
update_deck_save(s) ==
    /\ txns[s].op = "update_deck"
    /\ decks' = [decks EXCEPT ![txns[s].id] = txns[s].row]
    /\ last' = Call("update_deck", txns[s].user, txns[s].id,
                    txns[s].parent_id, NULL, Ok)
    /\ txns' = [txns EXCEPT ![s] = Idle]
    /\ UNCHANGED <<drops, comments>>

BeginCreateDeck ==
    \E s \in TxnIds, user \in TxnUsers, parent_id \in DeckIds \cup {NULL} :
        create_deck_read(s, user, "n1", NoText, "#000000", parent_id, FALSE)

CommitCreateDeck == \E s \in TxnIds : create_deck_write(s)

BeginUpdateDeck ==
    \E s \in TxnIds, deck_id \in DeckIds, user \in TxnUsers,
       parent_id \in DeckIds :
        update_deck_read(s, deck_id, user, parent_id)

CommitUpdateDeck == \E s \in TxnIds : update_deck_save(s)

PairDeckIds == 1..PairDecks

\* the store after PairDecks create_deck calls of one user, the call for deck
\* d naming parents[d], a deck created before it, or none
created_decks(parents) ==
    [d \in PairDeckIds |->
        [user |-> "u1", name |-> "n1", description |-> NoText,
         color_hex |-> "#000000", parent |-> parents[d],
         order |-> Cardinality({e \in 1..(d - 1) : parents[e] = parents[d]}),
         is_public |-> FALSE, is_deleted |-> FALSE, deleted_at |-> NULL]]

\* the first PairDecks requests have been create_deck calls of one user
InitPair ==
    /\ decks \in {created_decks(parents) :
                    parents \in {p \in [PairDeckIds -> 0..(PairDecks - 1)] :
                                    \A d \in PairDeckIds : p[d] < d}}
    /\ drops = <<>>
    /\ comments = <<>>
    /\ last = Call("init", "u1", NULL, NULL, NULL, Ok)
    /\ txns = [s \in TxnIds |-> Idle]

\* the slots of the two requests of a pair
PairSlots == {1, 2}

\* one of two reparent requests arrives before any request has answered
BeginReparent ==
    /\ last.op = "init"
    /\ \E s \in PairSlots, deck_id \in PairDeckIds, parent_id \in PairDeckIds :
           update_deck_read(s, deck_id, "u1", parent_id)

\* deck is on a cycle of parent links whose decks are all live: the
\* recursion of _soft_delete_recursive over the live children comes back to
\* deck before any row is marked, and goes on until the interpreter stops it
OnLiveCycle(store, deck) ==
    /\ \E k \in 1..Cardinality(DOMAIN store) : UpK(store, deck, k) = deck
    /\ \A k \in 1..Cardinality(DOMAIN store) :
          UpK(store, deck, k) # NULL
          => store[UpK(store, deck, k)].deleted_at = NULL

\* delete_deck, whose reads and writes are taken as one step
TxnDeleteDeck ==
    /\ \E deck_id \in DeckIds, user \in TxnUsers :
           LET deck == get_deck_by_id(decks, deck_id, user)
           IN  IF deck # NULL /\ OnLiveCycle(decks, deck)
               THEN /\ last' = Call("delete_deck", user, deck_id, NULL,
                                    NULL, RecursionError)
                    /\ UNCHANGED <<decks, drops, comments>>
               ELSE delete_deck(deck_id, user)
    /\ UNCHANGED txns

\* the loop "while current: current = current.parent" of Deck.depth,
\* Deck.get_ancestors and Deck.get_root over the stored links: it ends at a
\* root, or it comes back to a deck it has left and never ends
RECURSIVE ParentWalk(_, _, _)
ParentWalk(store, current, seen) ==
    IF current = NULL THEN Ok
    ELSE IF current \in seen THEN NeverReturns
    ELSE ParentWalk(store, store[current].parent, seen \cup {current})

WalkOps == {"depth", "get_ancestors", "get_root"}

\* a serializer reads depth or the ancestors of a stored deck
WalkDeck ==
    /\ \E deck \in DOMAIN decks, op \in WalkOps :
           last' = Call(op, decks[deck].user, deck, NULL, NULL,
                        ParentWalk(decks, deck, {}))
    /\ UNCHANGED <<decks, drops, comments, txns>>

\* -------------------------------------------------------- specifications
\* DeckService reads and writes the deck table only; CommentService reads
\* the drop table and writes the comment table only.  The specifications
\* below bound the exploration by running the deck operations on a store
\* without drops, and the drop and comment operations on a store of at most
\* ThreadDecks decks.
NextDeck == CreateDeck \/ UpdateDeck \/ DeleteDeck

ThreadRows == Cardinality(DOMAIN drops) + Cardinality(DOMAIN comments)

NextThread ==
    /\ Cardinality(DOMAIN decks) <= ThreadDecks
    /\ \/ (ThreadRows < MaxThreadRows /\ CreateDrop)
       \/ DeleteDrop
       \/ (ThreadRows < MaxThreadRows /\ CreateComment)
       \/ UpdateComment
       \/ DeleteComment

SeedDeck == Cardinality(DOMAIN decks) < ThreadDecks /\ CreateDeck

Next == (drops = <<>> /\ NextDeck) \/ NextThread

NextOrder == CreateDeck \/ DeleteDeck

NextDrop ==
    \/ (Cardinality(DOMAIN decks) < DropDecks /\ CreateDeck)
    \/ UpdateDeck
    \/ DeleteDeck
    \/ CreateDrop
    \/ UpdateDrop
    \/ DeleteDrop

\* decks only
SpecDeck == Init /\ [][NextDeck]_vars

\* comment threads on the drops of a small deck store
SpecComment == Init /\ [][SeedDeck \/ NextThread]_vars

\* decks that are created and deleted, never updated
SpecOrder == Init /\ [][NextOrder]_vars

\* decks whose updates carry a new value for every field
NextUpdate == CreateDeck \/ UpdateDeckFields \/ DeleteDeck

SpecUpdate == Init /\ [][NextUpdate]_vars

\* cascades that can fail at any of their delete() calls
NextFault ==
    \/ (drops = <<>> /\ (CreateDeck \/ DeleteDeck \/ DeleteDeckFails))
    \/ NextThread
    \/ DeleteCommentFails

SpecFault == Init /\ [][NextFault]_vars

\* decks under two concurrent requests
NextTxn ==
    \/ BeginCreateDeck
    \/ CommitCreateDeck
    \/ BeginUpdateDeck
    \/ CommitUpdateDeck
    \/ TxnDeleteDeck
    \/ WalkDeck

SpecTxn == Init /\ [][NextTxn]_vars

\* two reparent requests on a store of PairDecks decks
NextPair == BeginReparent \/ CommitUpdateDeck

SpecPair == InitPair /\ [][NextPair]_vars

\* updates of any fields of at most FieldDecks decks, then threads
NextFields ==
    \/ /\ drops = <<>>
       /\ \/ (Cardinality(DOMAIN decks) < FieldDecks /\ CreateDeck)
          \/ UpdateDeckAnyFields
          \/ DeleteDeck
    \/ NextThread

SpecFields == Init /\ [][NextFields]_vars

\* decks and the reading of their children lists
NextTree == NextDeck \/ ReadChildren

SpecTree == Init /\ [][NextTree]_vars

\* decks and the drops filed in them
SpecDrop == Init /\ [][NextDrop]_vars

\* decks, then threads
Spec == Init /\ [][Next]_vars

\* ---------------------------------------------------------------- properties
LiveDecks == {d \in DOMAIN decks : ~decks[d].is_deleted}

LiveComments == {c \in DOMAIN comments : ~comments[c].is_deleted}

\* a is reached from node by one or more parent links
IsAncestor(store, a, node) ==
    \E k \in 1..Cardinality(DOMAIN store) : UpK(store, node, k) = a

ParentLinks(store) == [n \in DOMAIN store |-> store[n].parent]

\* C1: following parent links from any live deck reaches a root without
\* visiting a deck twice, and the number of links followed is Deck.depth.
C1_Acyclicity ==
    \A d \in LiveDecks :
        \E k \in 0..(Cardinality(DOMAIN decks) - 1) :
            /\ UpK(decks, d, k) # NULL
            /\ decks[UpK(decks, d, k)].parent = NULL
            /\ \A i, j \in 0..k : i # j => UpK(decks, d, i) # UpK(decks, d, j)
            /\ depth(decks, d) = k

\* a reparent has just succeeded and left the moved deck two links below a
\* root
C1_Witness ==
    /\ last.op = "update_deck" /\ last.res = Ok /\ last.parent_id # NULL
    /\ last.id \in LiveDecks
    /\ decks[last.id].parent = last.parent_id
    /\ decks[last.parent_id].parent # NULL
    /\ depth(decks, last.id) = 2

\* C2: update_deck(N, parent_id = P) with P a live descendant of the live
\* deck N fails with "Circular reference detected" and changes no parent
\* link.
C2_CycleRejected ==
    [][(/\ last'.op = "update_deck"
        /\ last'.id \in LiveDecks
        /\ decks[last'.id].user = last'.user
        /\ last'.parent_id \in LiveDecks
        /\ IsAncestor(decks, last'.id, last'.parent_id))
       => (/\ last'.res = CycleDetected
           /\ ParentLinks(decks') = ParentLinks(decks))]_vars

\* a reparent under a grandchild has just been rejected
C2_Witness ==
    /\ last.op = "update_deck" /\ last.res = CycleDetected
    /\ last.parent_id \in LiveDecks
    /\ decks[last.parent_id].parent # last.id
    /\ IsAncestor(decks, last.id, last.parent_id)

\* C3: update_deck(X, parent_id = X) by the owner of the live deck X fails
\* with "Deck cannot be its own parent", which is neither the cycle nor the
\* parent-not-found outcome, and leaves the parent of X as it was.
C3_SelfParentRejected ==
    [][(/\ last'.op = "update_deck"
        /\ last'.id \in LiveDecks
        /\ decks[last'.id].user = last'.user
        /\ last'.parent_id = last'.id)
       => (/\ last'.res = SelfParentError
           /\ last'.res \notin {CycleDetected, ParentNotFound}
           /\ decks'[last'.id].parent = decks[last'.id].parent)]_vars

\* the owner has just named a live non-root deck as its own parent
C3_Witness ==
    /\ last.op = "update_deck" /\ last.res = SelfParentError
    /\ last.id = last.parent_id
    /\ last.id \in LiveDecks
    /\ decks[last.id].user = last.user
    /\ decks[last.id].parent # NULL

\* C4: a successful delete_deck(n) or delete_comment(n) leaves n and every
\* node that was a live descendant of n before the call soft-deleted.
C4_CascadeComplete ==
    [][/\ (last'.op = "delete_deck" /\ last'.res = Ok)
          => \A m \in DOMAIN decks :
                (m = last'.id \/ (m \in LiveDecks
                                  /\ IsAncestor(decks, last'.id, m)))
                => (decks'[m].is_deleted /\ decks'[m].deleted_at # NULL)
       /\ (last'.op = "delete_comment" /\ last'.res = Ok)
          => \A m \in DOMAIN comments :
                (m = last'.id \/ (m \in LiveComments
                                  /\ IsAncestor(comments, last'.id, m)))
                => (comments'[m].is_deleted /\ comments'[m].deleted_at # NULL)
      ]_vars

\* a delete has just cascaded over a chain of three decks
C4_Witness ==
    /\ last.op = "delete_deck" /\ last.res = Ok
    /\ \E d \in DOMAIN decks :
          /\ decks[d].is_deleted
          /\ decks[d].parent # NULL
          /\ decks[decks[d].parent].parent = last.id

\* C5: no live deck and no live comment has a soft-deleted ancestor.
C5_SoftDeleteClosure ==
    /\ \A d \in LiveDecks : \A a \in DOMAIN decks :
          IsAncestor(decks, a, d) => ~decks[a].is_deleted
    /\ \A c \in LiveComments : \A a \in DOMAIN comments :
          IsAncestor(comments, a, c) => ~comments[a].is_deleted

\* a reply and its own reply have just been deleted below a comment that
\* stays live
C5_Witness ==
    /\ last.op = "delete_comment" /\ last.res = Ok
    /\ comments[last.id].parent \in LiveComments
    /\ \E c \in DOMAIN comments :
          comments[c].is_deleted /\ comments[c].parent = last.id

\* the deck made by the create_deck call that has just succeeded
NewDeck == Cardinality(DOMAIN decks)

\* C6 as claimed: a deck created under a parent gets an order greater than
\* the order of every deck created before it under that parent by that
\* user, soft-deleted ones included.
C6_OrderNeverReused ==
    [][(last'.op = "create_deck" /\ last'.res = Ok)
       => \A d \in DOMAIN decks :
             (/\ decks[d].user = decks'[NewDeck'].user
              /\ decks[d].parent = decks'[NewDeck'].parent)
             => decks'[NewDeck'].order > decks[d].order]_vars

\* C6 amended: a deck created under a parent gets an order greater than the
\* order of every deck of that user that is live under that parent at the
\* time of the call.
C6_OrderAboveLiveSiblings ==
    [][(last'.op = "create_deck" /\ last'.res = Ok)
       => \A d \in LiveDecks :
             (/\ decks[d].user = decks'[NewDeck'].user
              /\ decks[d].parent = decks'[NewDeck'].parent)
             => decks'[NewDeck'].order > decks[d].order]_vars

\* a deck has just been created next to a live sibling and a deleted one
C6_Witness ==
    /\ last.op = "create_deck" /\ last.res = Ok
    /\ \E d, e \in DOMAIN decks \ {NewDeck} :
          /\ decks[d].user = decks[NewDeck].user
          /\ decks[e].user = decks[NewDeck].user
          /\ decks[d].parent = decks[NewDeck].parent
          /\ decks[e].parent = decks[NewDeck].parent
          /\ decks[d].is_deleted
          /\ ~decks[e].is_deleted

\* C7: the breadcrumb of a live deck is its chain of ancestors from the root
\* down, then the deck itself; it has depth + 1 entries; a root has depth 0.
C7_Breadcrumb ==
    \A d \in LiveDecks :
        LET b == breadcrumb(decks, d)
        IN  /\ Len(b) = depth(decks, d) + 1
            /\ b[Len(b)] = d
            /\ decks[b[1]].parent = NULL
            /\ b[1] = get_root(decks, d)
            /\ \A i \in 1..(Len(b) - 1) : decks[b[i + 1]].parent = b[i]
            /\ (decks[d].parent = NULL => depth(decks, d) = 0)

\* a live deck sits two links below its root
C7_Witness ==
    \E d \in LiveDecks :
        /\ depth(decks, d) = 2
        /\ Len(breadcrumb(decks, d)) = 3
        /\ breadcrumb(decks, d)[1] # decks[d].parent

\* C8: every deck has the user of its parent deck, every comment the drop of
\* its parent comment.
C8_ScopeClosure ==
    /\ \A d \in DOMAIN decks :
          decks[d].parent # NULL
          => /\ decks[d].parent \in DOMAIN decks
             /\ decks[decks[d].parent].user = decks[d].user
    /\ \A c \in DOMAIN comments :
          comments[c].parent # NULL
          => /\ comments[c].parent \in DOMAIN comments
             /\ comments[comments[c].parent].drop = comments[c].drop

\* a reply has just been created on one of two live drops
C8_Witness ==
    /\ last.op = "create_comment" /\ last.res = Ok /\ last.parent_id # NULL
    /\ \E c \in DOMAIN comments :
          /\ comments[c].parent = last.parent_id
          /\ comments[c].drop = last.scope
    /\ \E e \in DOMAIN drops : e # last.scope /\ ~drops[e].is_deleted

\* what a call on a deck that does not exist returns
NotFoundResult(op) == IF op = "update_deck" THEN ReturnsNone ELSE ReturnsFalse

\* C9: update_deck and delete_deck on another user's deck return what they
\* return for an id that does not exist and change nothing; update_deck
\* with another user's deck as new parent fails with "Parent deck not
\* found" and changes nothing.
C9_DeckScopeIsolation ==
    [][/\ (/\ last'.op \in {"update_deck", "delete_deck"}
           /\ \/ last'.id \notin DOMAIN decks
              \/ decks[last'.id].user # last'.user)
          => (/\ last'.res = NotFoundResult(last'.op)
              /\ UNCHANGED <<decks, drops, comments>>)
       /\ (/\ last'.op = "update_deck"
           /\ last'.id \in LiveDecks
           /\ decks[last'.id].user = last'.user
           /\ last'.parent_id \in DOMAIN decks
           /\ decks[last'.parent_id].user # last'.user)
          => (/\ last'.res = ParentNotFound
              /\ UNCHANGED <<decks, drops, comments>>)]_vars

\* a user has just tried to move a live deck of another user under a live
\* deck of their own
C9_Witness ==
    /\ last.op = "update_deck" /\ last.res = ReturnsNone
    /\ last.id \in LiveDecks
    /\ decks[last.id].user # last.user
    /\ last.parent_id \in LiveDecks
    /\ decks[last.parent_id].user = last.user

ShownDecks ==
    UNION {DeckTreeSerializer(decks, get_deck_tree(decks, user, deck_id)) :
              user \in Users, deck_id \in DeckIds \cup {NULL}}

ShownComments ==
    UNION {CommentTreeSerializer(comments, get_drop_comments(comments, drop_id)) :
              drop_id \in DropIds}

\* C11: a soft-deleted deck or comment and every node below it, at any
\* depth, is in no tree projection (get_deck_tree with DeckTreeSerializer,
\* get_drop_comments with CommentTreeSerializer), while its row is still
\* stored with the deleted mark and the deletion time.
C11_ProjectionExcludesDeleted ==
    /\ \A m \in DOMAIN decks :
          (\/ decks[m].is_deleted
           \/ \E a \in DOMAIN decks :
                 decks[a].is_deleted /\ IsAncestor(decks, a, m))
          => (/\ m \notin ShownDecks
              /\ decks[m].is_deleted /\ decks[m].deleted_at # NULL)
    /\ \A m \in DOMAIN comments :
          (\/ comments[m].is_deleted
           \/ \E a \in DOMAIN comments :
                 comments[a].is_deleted /\ IsAncestor(comments, a, m))
          => (/\ m \notin ShownComments
              /\ comments[m].is_deleted /\ comments[m].deleted_at # NULL)

\* a deck between a live root and a child has just been deleted: the root
\* is shown, the deck and its child are stored and not shown
C11_Witness ==
    /\ last.op = "delete_deck" /\ last.res = Ok
    /\ decks[last.id].parent \in LiveDecks
    /\ decks[last.id].parent \in ShownDecks
    /\ \E c \in DOMAIN decks :
          /\ decks[c].parent = last.id
          /\ decks[c].is_deleted
          /\ c \notin ShownDecks
    /\ last.id \notin ShownDecks

\* C12: an update_deck call that is rejected for its parent change
\* (self-parent, cycle, parent not found) stores none of the field changes
\* it carries: every deck row is as it was before the call.
C12_NoPartialChange ==
    [][(/\ last'.op = "update_deck"
        /\ last'.res \in {SelfParentError, CycleDetected, ParentNotFound})
       => decks' = decks]_vars

\* a reparent that carried a new value for every field has just been
\* rejected as a cycle, and the deck has none of the new values
C12_Witness ==
    /\ last.op = "update_deck" /\ last.res = CycleDetected
    /\ last.id \in LiveDecks
    /\ decks[last.id].name # NewName
    /\ decks[last.id].description # NewDescription
    /\ decks[last.id].color_hex # NewColor
    /\ decks[last.id].order # NewOrder
    /\ ~decks[last.id].is_public

\* no request is between its reads and its write
AllCommitted == \A s \in TxnIds : txns[s].op = "idle"

\* C13: with update_deck(A, parent_id = B) and update_deck(B, parent_id = A)
\* running as concurrent transactions, at most one commits, so that no
\* stored deck is its own ancestor.
C13_MutualReparentNoCycle ==
    \A d \in DOMAIN decks : ~IsAncestor(decks, d, d)

\* the target n of a delete call and the nodes that were live below it
DeckSubtree(n) ==
    {m \in DOMAIN decks : m = n \/ (m \in LiveDecks /\ IsAncestor(decks, n, m))}

CommentSubtree(n) ==
    {m \in DOMAIN comments :
        m = n \/ (m \in LiveComments /\ IsAncestor(comments, n, m))}

\* C14: a delete_deck or delete_comment call that fails at one of its
\* delete() calls leaves every row as it was, the target and its live
\* descendants live; a call that succeeds leaves the rows that all its
\* delete() calls mark.  No call leaves the rows of a part of its calls.
C14_AtomicCascade ==
    [][/\ (last'.op = "delete_deck" /\ last'.res = StoreFailure)
          => (/\ decks' = decks
              /\ \A m \in DeckSubtree(last'.id) : ~decks'[m].is_deleted)
       /\ (last'.op = "delete_deck" /\ last'.res = Ok)
          => LET order == DeckDeleteOrder(decks, last'.id)
             IN  decks' = MarkFirst(decks, order, Len(order), Now)
       /\ (last'.op = "delete_comment" /\ last'.res = StoreFailure)
          => (/\ comments' = comments
              /\ \A m \in CommentSubtree(last'.id) : ~comments'[m].is_deleted)
       /\ (last'.op = "delete_comment" /\ last'.res = Ok)
          => LET order == CommentDeleteOrder(comments, last'.id)
             IN  comments' = MarkFirst(comments, order, Len(order), Now)
      ]_vars

\* the delete of a deck with a live child below it has just failed after
\* the child was marked, and both are live
C14_Witness ==
    /\ last.op = "delete_deck" /\ last.res = StoreFailure
    /\ last.scope >= 1
    /\ last.id \in LiveDecks
    /\ \E c \in LiveDecks : decks[c].parent = last.id

\* C15: a soft-deleted deck or comment stays as it is: whatever operation
\* runs next, its row is stored, deleted, and equal in every field, the
\* parent included.
C15_DeletedTerminal ==
    [][/\ \A d \in DOMAIN decks :
             decks[d].is_deleted
             => (d \in DOMAIN decks' /\ decks'[d] = decks[d])
       /\ \A c \in DOMAIN comments :
             comments[c].is_deleted
             => (c \in DOMAIN comments' /\ comments'[c] = comments[c])]_vars

\* the owner of a deleted deck has just tried to move it under a live deck
\* of theirs
C15_Witness ==
    /\ last.op = "update_deck" /\ last.res = ReturnsNone
    /\ last.id \in DOMAIN decks
    /\ decks[last.id].is_deleted
    /\ decks[last.id].user = last.user
    /\ last.parent_id \in LiveDecks
    /\ decks[last.parent_id].user = last.user

\* the signal that C16 names for a walk that meets a deck again
CorruptHierarchy == "CorruptHierarchy"

\* C16: Deck.depth, Deck.get_ancestors and Deck.get_root end on every stored
\* configuration of parent links: they return, or, when the walk meets a
\* deck again, they stop with CorruptHierarchy.
C16_WalksGuarded ==
    last.op \in WalkOps
    => last.res = IF \E k \in 0..Cardinality(DOMAIN decks) :
                        LET m == UpK(decks, last.id, k)
                        IN  m # NULL /\ IsAncestor(decks, m, m)
                 THEN CorruptHierarchy
                 ELSE Ok

\* the comment made by the create_comment call that has just succeeded
NewComment == Cardinality(DOMAIN comments)

\* the parent named by a create_deck call is a live deck of the caller
GoodDeckParent(user, parent_id) ==
    parent_id \in LiveDecks /\ decks[parent_id].user = user

\* what a successful create leaves: one new live row under the named parent
DeckCreated(parent_id) ==
    /\ DOMAIN decks' = DOMAIN decks \cup {NewDeck'}
    /\ NewDeck' \notin DOMAIN decks
    /\ ~decks'[NewDeck'].is_deleted
    /\ decks'[NewDeck'].parent = parent_id
    /\ \A d \in DOMAIN decks : decks'[d] = decks[d]

CommentCreated(parent_id, drop_id) ==
    /\ DOMAIN comments' = DOMAIN comments \cup {NewComment'}
    /\ NewComment' \notin DOMAIN comments
    /\ ~comments'[NewComment'].is_deleted
    /\ comments'[NewComment'].parent = parent_id
    /\ comments'[NewComment'].drop = drop_id
    /\ \A c \in DOMAIN comments : comments'[c] = comments[c]

\* create_deck: a parent that is missing, deleted or another user's is
\* refused with "Parent deck with id not found" and nothing is created;
\* otherwise the new deck is live under the named parent, or is a root
CreateDeckValidatesParent ==
    last'.op = "create_deck"
    => IF last'.parent_id # NULL
          /\ ~GoodDeckParent(last'.user, last'.parent_id)
       THEN last'.res = ParentNotFound /\ decks' = decks
       ELSE last'.res = Ok /\ DeckCreated(last'.parent_id)

C18_ReparentToRoot ==
    [][(/\ last'.op = "update_deck"
        /\ last'.id \in LiveDecks
        /\ decks[last'.id].user = last'.user
        /\ decks[last'.id].parent # NULL
        /\ last'.parent_id = NULL)
       => (/\ last'.res = Ok
           /\ decks'[last'.id].parent = NULL)]_vars

\* C19: with delete_deck(P) running at the same time as a create_deck under
\* P or below it, or as an update_deck that moves a live deck there, once
\* every transaction has committed no live deck has a soft-deleted ancestor.
C19_ClosureUnderInterleaving ==
    AllCommitted
    => \A d \in LiveDecks :
          \A k \in 1..Cardinality(DOMAIN decks) :
              UpK(decks, d, k) # NULL => ~decks[UpK(decks, d, k)].is_deleted

\* C20: Deck.get_ancestors of a live deck and Drop.breadcrumb of a live
\* drop list live decks only.
C20_AncestryExcludesDeleted ==
    /\ \A d \in LiveDecks :
          LET a == get_ancestors(decks, d)
          IN  \A i \in 1..Len(a) : ~decks[a[i]].is_deleted
    /\ \A r \in DOMAIN drops :
          ~drops[r].is_deleted
          => LET b == breadcrumb(decks, drops[r].deck)
             IN  \A i \in 1..Len(b) : ~decks[b[i]].is_deleted

\* C21: delete_deck by the owner of a soft-deleted deck, and delete_comment
\* by the author of a soft-deleted comment, report what a first successful
\* delete reports and change no stored row.
C21_DeleteDeletedIsNoOp ==
    [][/\ (/\ last'.op = "delete_deck"
           /\ last'.id \in DOMAIN decks
           /\ decks[last'.id].is_deleted
           /\ decks[last'.id].user = last'.user)
          => (last'.res = Ok /\ UNCHANGED <<decks, drops, comments>>)
       /\ (/\ last'.op = "delete_comment"
           /\ last'.id \in DOMAIN comments
           /\ comments[last'.id].is_deleted
           /\ comments[last'.id].user = last'.user)
          => (last'.res = Ok /\ UNCHANGED <<decks, drops, comments>>)]_vars

\* the rows by ascending order, rows of equal order by creation (ids are
\* given out in the order of creation)
ByOrderThenCreation(store, rows) ==
    CHOOSE seq \in Arrangements(rows) :
        \A i, j \in 1..Cardinality(rows) :
            i < j => \/ store[seq[i]].order < store[seq[j]].order
                     \/ /\ store[seq[i]].order = store[seq[j]].order
                        /\ seq[i] < seq[j]

\* C22: the children list of a deck in the tree projection is sorted by
\* order, decks of equal order by creation time and then id, so that the
\* same stored decks always give the same list.
C22_DeterministicSiblingOrder ==
    last.op = "get_children"
    => last.res = ByOrderThenCreation(decks, get_children(decks, last.id))

\* C23: a successful update_deck that is given a parent_id and no other
\* field changes the parent link of that deck and nothing else: its other
\* fields, every other deck, and the drops and comments stay as they were.
C23_ReparentChangesParentOnly ==
    [][\A deck_id \in DeckIds, user \in Users, parent_id \in DeckIds :
          (/\ update_deck(deck_id, user, NoText, NoText, NoText, parent_id,
                          NoOrder, NoText)
           /\ last'.res = Ok)
          => /\ decks' = [decks EXCEPT ![deck_id].parent = parent_id]
             /\ UNCHANGED <<drops, comments>>]_vars

\* a deck whose order is not 0 has been moved under another deck
C23_Witness ==
    /\ last.op = "update_deck"
    /\ last.res = Ok
    /\ last.parent_id # NULL
    /\ decks[last.id].parent = last.parent_id
    /\ decks[last.id].order > 0

\* C24: an update_deck call that is given no parent_id, whatever other fields
\* it is given, and an update_comment call leave the parent link of every
\* deck and of every comment as it was.
C24_FieldUpdateKeepsStructure ==
    [][(\/ (last'.op = "update_deck" /\ last'.parent_id = NULL)
        \/ last'.op = "update_comment")
       => /\ ParentLinks(decks') = ParentLinks(decks)
          /\ ParentLinks(comments') = ParentLinks(comments)]_vars

\* a deck under a parent has just been given a new order
C24_Witness ==
    /\ last.op = "update_deck"
    /\ last.res = Ok
    /\ last.parent_id = NULL
    /\ decks[last.id].parent # NULL
    /\ decks[last.id].order = NewOrder

\* the rows that are live decks of the user under the parent
LiveSiblingRows(user, parent) ==
    {d \in LiveDecks : decks[d].user = user /\ decks[d].parent = parent}

RootOf(store, n) ==
    CHOOSE r \in DOMAIN store :
        store[r].parent = NULL /\ (r = n \/ IsAncestor(store, r, n))

\* the moved deck and the target parent of one reparent lie in other trees
\* than those of the other reparent
DisjointTrees(store, deck1, parent1, deck2, parent2) ==
    {RootOf(store, deck1), RootOf(store, parent1)}
        \cap {RootOf(store, deck2), RootOf(store, parent2)} = {}

DeckPlaces(store) ==
    [n \in DOMAIN store |-> <<store[n].parent, store[n].order>>]

\* the rows whose deleted status differs between two stores of the same rows
StatusChanged(before, after) ==
    {n \in DOMAIN before : after[n].is_deleted # before[n].is_deleted}

\* C27: a delete_deck or delete_comment call changes the deleted status of
\* no row but the target and the rows that were live below it; it changes no
\* parent link and no order, and no row of another table.
C27_DeleteTouchesSubtreeOnly ==
    [][/\ last'.op = "delete_deck"
          => /\ DOMAIN decks' = DOMAIN decks
             /\ StatusChanged(decks, decks') \subseteq
                    IF last'.id \in DOMAIN decks
                    THEN DeckSubtree(last'.id) ELSE {}
             /\ DeckPlaces(decks') = DeckPlaces(decks)
             /\ UNCHANGED <<drops, comments>>
       /\ last'.op = "delete_comment"
          => /\ DOMAIN comments' = DOMAIN comments
             /\ StatusChanged(comments, comments') \subseteq
                    IF last'.id \in DOMAIN comments
                    THEN CommentSubtree(last'.id) ELSE {}
             /\ ParentLinks(comments') = ParentLinks(comments)
             /\ UNCHANGED <<decks, drops>>]_vars

\* a deck has just been deleted with its child, and its parent is live
C27_Witness ==
    /\ last.op = "delete_deck" /\ last.res = Ok
    /\ decks[last.id].is_deleted
    /\ decks[last.id].parent \in LiveDecks
    /\ \E c \in DOMAIN decks : decks[c].parent = last.id /\ decks[c].is_deleted

\* C28: every drop that is not soft-deleted is filed in a deck that is
\* stored and not soft-deleted.
C28_LiveDropInLiveDeck ==
    \A r \in DOMAIN drops :
        ~drops[r].is_deleted => drops[r].deck \in LiveDecks

\* C30: every comment that is not soft-deleted is written on a drop that is
\* stored and not soft-deleted.
C30_LiveCommentOnLiveDrop ==
    \A c \in LiveComments :
        /\ comments[c].drop \in DOMAIN drops
        /\ ~drops[comments[c].drop].is_deleted

\* C29: update_comment and delete_comment called on a live comment by a user
\* who is not its author answer with a permission error and leave every
\* row as it was: the comment, its content and its replies, all still live.
C29_AuthorCheckBeforeMutation ==
    [][(/\ last'.op \in {"update_comment", "delete_comment"}
        /\ last'.id \in LiveComments
        /\ comments[last'.id].user # last'.user)
       => /\ last'.res = PermissionDenied
          /\ comments' = comments
          /\ \A c \in CommentSubtree(last'.id) : c \in LiveComments'
          /\ UNCHANGED <<decks, drops>>]_vars

\* a user has just been refused the delete of a comment of another user
\* that has a live reply
C29_Witness ==
    /\ last.op = "delete_comment" /\ last.res = PermissionDenied
    /\ last.id \in LiveComments
    /\ comments[last.id].user # last.user
    /\ \E c \in LiveComments : comments[c].parent = last.id
====
